---- MODULE Spec2Model ----
(***************************************************************************)
(* Model of dog_mcp_server.py: the four tools of the DogMCP server, the    *)
(* upstream HTTP outcomes they react to, and the process lifecycle around  *)
(* the shared httpx client.                                                *)
(*                                                                         *)
(* Encodings.  A Python dict is a TLA+ record/function over its keys.  An  *)
(* Optional[str] is a sequence of length <= 1 (<<>> is None).  None inside *)
(* a JSON value is the record None.  An f-string is the sequence of its    *)
(* literal and formatted parts; integers are formatted with ToString.      *)
(* json.dumps(d) is the str value carrying the document d.                 *)
(***************************************************************************)
EXTENDS Integers, Sequences, FiniteSets, TLC

VARIABLES API_KEY, pc, runEnd, loopRunning, clientCreated, clientClosed,
          uncaught, op, args, ipc, requests, outcomes, locals, returned,
          propagated

vars == <<API_KEY, pc, runEnd, loopRunning, clientCreated, clientClosed,
          uncaught, op, args, ipc, requests, outcomes, locals, returned,
          propagated>>

procVars == <<pc, runEnd, loopRunning, clientCreated, clientClosed, uncaught>>

(***************************************************************************)
(* Bounds of the model.                                                    *)
(***************************************************************************)
LimitSlack == 2

MaxItems == 2

(***************************************************************************)
(* Literals of the program.                                                *)
(***************************************************************************)
LIMIT_MIN == 1

IMAGE_LIMIT_MAX == 10

IMAGE_LIMIT_DEFAULT == 1

BREEDS_LIMIT_MAX == 100

BREEDS_LIMIT_DEFAULT == 10

PAGE_MIN == 0

HTTP_OK == 200

DOG_API_BASE_URL == "https://api.thedogapi.com/v1"

(***************************************************************************)
(* Python values.                                                          *)
(***************************************************************************)
None == [py_type |-> "NoneType"]

EmptyDict == <<>>

IsDict(v) == "py_type" \notin DOMAIN v

\* bool(x) of an Optional[str]: None and "" are falsy
Truthy(o) == Len(o) = 1 /\ o[1] # ""

\* d.get(k, default)
DictGet(d, k, default) == IF k \in DOMAIN d THEN d[k] ELSE default

json_dumps(d) == [py_type |-> "str", json |-> d]

Min(a, b) == IF a < b THEN a ELSE b

Max(a, b) == IF a > b THEN a ELSE b

Return(v) == [kind |-> "return", value |-> v]

Raise(t, m) == [kind |-> "raise", exc |-> [type |-> t, str |-> m]]

(***************************************************************************)
(* Inputs: tool arguments and environment.                                 *)
(***************************************************************************)
ApiKeys == {<<>>, <<"">>, <<"live_key">>}

ImageLimitInputs == (LIMIT_MIN - LimitSlack)..(IMAGE_LIMIT_MAX + LimitSlack)

\* both edges of [1,100], each with LimitSlack values on either side
BreedsLimitInputs ==
    ((LIMIT_MIN - LimitSlack)..(LIMIT_MIN + LimitSlack))
    \cup ((BREEDS_LIMIT_MAX - LimitSlack)..(BREEDS_LIMIT_MAX + LimitSlack))

PageInputs == (PAGE_MIN - LimitSlack)..(PAGE_MIN + LimitSlack)

OptStrInputs == {<<>>, <<"">>, <<"beng">>}

FormatInputs == {"json", "src"}

BreedNameInputs == {"", "Poodle"}

Timestamps == {"2026-01-01T00:00:00", "2026-01-01T00:00:11"}

(***************************************************************************)
(* Upstream JSON values.                                                   *)
(***************************************************************************)
BreedFull ==
    [id |-> 1, name |-> "Poodle", temperament |-> "Active",
     life_span |-> "12 years", bred_for |-> "Retrieving",
     weight |-> [metric |-> "20 - 30"], height |-> [metric |-> "40 - 60"]]

BreedSparse == [id |-> 2, name |-> "Beagle"]

BreedNullWeight == [id |-> 3, name |-> "Akita", weight |-> None]

BreedNoId == [name |-> "Mutt"]

BreedNoName == [id |-> 4]

ImgNoBreedsKey == [id |-> "img_a", url |-> "u_a", width |-> 10, height |-> 20]

ImgEmptyBreeds ==
    [id |-> "img_b", url |-> "u_b", width |-> 11, height |-> 21, breeds |-> <<>>]

ImgOneBreed ==
    [id |-> "img_c", url |-> "u_c", width |-> 12, height |-> 22,
     breeds |-> <<BreedSparse>>]

ImgTwoBreeds ==
    [id |-> "img_d", url |-> "u_d", width |-> 13, height |-> 23,
     breeds |-> <<BreedFull, BreedSparse>>]

ImgNullWeight ==
    [id |-> "img_e", url |-> "u_e", width |-> 14, height |-> 24,
     breeds |-> <<BreedNullWeight>>]

\* image records as the upstream API documents them
ImageRecords == {ImgNoBreedsKey, ImgEmptyBreeds, ImgOneBreed, ImgTwoBreeds}

\* items a 200 body may also hold: a null item, a breed with "weight": null
ImageItems == ImageRecords \cup {ImgNullWeight}

\* items of the image search made for a breed; None is a JSON null item
SearchImageItems == {ImgTwoBreeds, None}

BreedSearchItems == {BreedFull, BreedNoId, BreedNoName}

BreedListItems == {BreedFull, BreedNullWeight, None}

SeqsUpTo(S, n) == UNION {[1..k -> S] : k \in 0..n}

JsonOk(v) == [ok |-> TRUE, value |-> v]

JsonUndecodable == [ok |-> FALSE]

(***************************************************************************)
(* Outcomes of `await client.get(...)`.                                    *)
(***************************************************************************)
Response(code, text, js) ==
    [kind |-> "response", status_code |-> code, text |-> text, json |-> js]

TimeoutException == Raise("TimeoutException", "timed out")

ConnectError == Raise("ConnectError", "connection refused")

IsTimeout(o) == o.kind = "raise" /\ o.exc.type = "TimeoutException"

ErrorResponses ==
    {Response(404, "Not Found", JsonUndecodable),
     Response(500, "{\"message\":\"boom\"}", JsonOk(<<>>))}

FailedCalls == {TimeoutException, ConnectError}

ImageSearchOutcomes ==
    FailedCalls \cup ErrorResponses
    \cup {Response(HTTP_OK, "<html>", JsonUndecodable)}
    \cup {Response(HTTP_OK, "[...]", JsonOk(b)) : b \in SeqsUpTo(ImageItems, MaxItems)}

BreedListOutcomes ==
    FailedCalls \cup ErrorResponses
    \cup {Response(HTTP_OK, "<html>", JsonUndecodable)}
    \cup {Response(HTTP_OK, "[...]", JsonOk(b)) : b \in SeqsUpTo(BreedListItems, MaxItems)}

BreedSearchOutcomes ==
    FailedCalls \cup ErrorResponses
    \cup {Response(HTTP_OK, "<html>", JsonUndecodable)}
    \cup {Response(HTTP_OK, "[...]", JsonOk(b)) : b \in SeqsUpTo(BreedSearchItems, MaxItems)}

BreedImagesOutcomes ==
    FailedCalls \cup ErrorResponses
    \cup {Response(HTTP_OK, "<html>", JsonUndecodable)}
    \cup {Response(HTTP_OK, "[...]", JsonOk(b)) : b \in SeqsUpTo(SearchImageItems, MaxItems)}

ProbeOutcomes ==
    FailedCalls \cup ErrorResponses
    \cup {Response(HTTP_OK, "[...]", JsonOk(<<>>)),
          Response(HTTP_OK, "[...]", JsonOk(<<ImgNoBreedsKey>>))}

(***************************************************************************)
(* Shared pieces of the tools.                                             *)
(***************************************************************************)
Request(endpoint, params, headers) ==
    [url |-> <<DOG_API_BASE_URL, endpoint>>, params |-> params, headers |-> headers]

\* headers = {}; if API_KEY: headers["x-api-key"] = API_KEY
AuthHeaders(key) == IF Truthy(key) THEN ("x-api-key" :> key[1]) ELSE EmptyDict

\* d[k] = v only when the optional v is truthy
WithOpt(d, k, o) == IF Truthy(o) THEN (k :> o[1]) @@ d ELSE d

\* x.get("weight", {}).get("metric", "Unknown") raises on a non-dict weight
MetricRaises(b, k) == k \in DOMAIN b /\ ~IsDict(b[k])

Metric(b, k) == DictGet(DictGet(b, k, EmptyDict), "metric", "Unknown")

HasBreeds(img) == "breeds" \in DOMAIN img /\ Len(img.breeds) > 0

(***************************************************************************)
(* get_random_dog_image                                                    *)
(***************************************************************************)
ValidateImageLimit(limit) ==
    IF limit < LIMIT_MIN \/ limit > IMAGE_LIMIT_MAX THEN IMAGE_LIMIT_DEFAULT ELSE limit

RandomImageParams(breed_id, category_ids, format, limit) ==
    WithOpt(WithOpt([limit |-> ValidateImageLimit(limit), format |-> format],
                    "breed_ids", breed_id),
            "category_ids", category_ids)

\* variant: surfaces the last breed entry
RandomImageBreedLast(img) ==
    LET breed == img.breeds[Len(img.breeds)]
    IN  [name |-> DictGet(breed, "name", None),
         temperament |-> DictGet(breed, "temperament", None),
         life_span |-> DictGet(breed, "life_span", None),
         weight |-> Metric(breed, "weight"),
         height |-> Metric(breed, "height")]

RandomImageBreed(img) ==
    LET breed == img.breeds[1]
    IN  [name |-> DictGet(breed, "name", None),
         temperament |-> DictGet(breed, "temperament", None),
         life_span |-> DictGet(breed, "life_span", None),
         weight |-> Metric(breed, "weight"),
         height |-> Metric(breed, "height")]

RandomImageInfo(img) ==
    LET image_info == [id |-> DictGet(img, "id", None),
                       url |-> DictGet(img, "url", None),
                       width |-> DictGet(img, "width", None),
                       height |-> DictGet(img, "height", None)]
    IN  IF HasBreeds(img)
        THEN [breed |-> RandomImageBreed(img)] @@ image_info
        ELSE image_info

RandomImageRaises(img) ==
    \/ ~IsDict(img)
    \/ /\ HasBreeds(img)
       /\ \/ ~IsDict(img.breeds[1])
          \/ MetricRaises(img.breeds[1], "weight")
          \/ MetricRaises(img.breeds[1], "height")

RandomImageStatusError(response) ==
    [status |-> "error",
     message |-> <<"API request failed with status ", ToString(response.status_code)>>,
     details |-> response.text]

RandomImageTimeoutError ==
    [status |-> "error",
     message |-> <<"Request timeout - The Dog API took too long to respond">>,
     suggestion |-> "Please try again in a moment"]

RandomImageGenericError(e, now) ==
    [status |-> "error", message |-> <<"Unexpected error: ", e.str>>, timestamp |-> now]

\* the try block after the await
RandomImageBody(o) ==
    IF o.kind = "raise" THEN o
    ELSE IF o.status_code = HTTP_OK
    THEN IF ~o.json.ok THEN Raise("JSONDecodeError", "Expecting value")
         ELSE LET data == o.json.value
              IN  IF \E i \in 1..Len(data) : RandomImageRaises(data[i])
                  THEN Raise("AttributeError", "object has no attribute 'get'")
                  ELSE Return(json_dumps(
                         [status |-> "success", count |-> Len(data),
                          images |-> [i \in 1..Len(data) |-> RandomImageInfo(data[i])]]))
    ELSE Return(json_dumps(RandomImageStatusError(o)))

\* variant: only the timeout clause, no `except Exception`
RandomImageExceptTimeoutOnly(r, now) ==
    IF r.kind # "raise" THEN r
    ELSE IF r.exc.type = "TimeoutException"
    THEN Return(json_dumps(RandomImageTimeoutError))
    ELSE r

\* the except clauses
RandomImageExcept(r, now) ==
    IF r.kind # "raise" THEN r
    ELSE IF r.exc.type = "TimeoutException"
    THEN Return(json_dumps(RandomImageTimeoutError))
    ELSE Return(json_dumps(RandomImageGenericError(r.exc, now)))

(***************************************************************************)
(* get_dog_breeds                                                          *)
(***************************************************************************)
\* variant: nearest-bound clamping
ValidateBreedsLimitClamped(limit) == Min(Max(LIMIT_MIN, limit), BREEDS_LIMIT_MAX)

ValidateBreedsLimit(limit) ==
    IF limit < LIMIT_MIN \/ limit > BREEDS_LIMIT_MAX THEN BREEDS_LIMIT_DEFAULT ELSE limit

ValidatePage(page) == IF page < PAGE_MIN THEN PAGE_MIN ELSE page

BreedsParams(limit, page, search) ==
    WithOpt([limit |-> ValidateBreedsLimit(limit), page |-> ValidatePage(page)],
            "q", search)

BreedInfo(breed) ==
    [id |-> DictGet(breed, "id", None),
     name |-> DictGet(breed, "name", None),
     temperament |-> DictGet(breed, "temperament", None),
     life_span |-> DictGet(breed, "life_span", None),
     alt_names |-> DictGet(breed, "alt_names", ""),
     wikipedia_url |-> DictGet(breed, "wikipedia_url", None),
     origin |-> DictGet(breed, "origin", "Unknown"),
     weight_metric |-> Metric(breed, "weight"),
     height_metric |-> Metric(breed, "height"),
     bred_for |-> DictGet(breed, "bred_for", "Unknown"),
     breed_group |-> DictGet(breed, "breed_group", "Unknown"),
     reference_image_id |-> DictGet(breed, "reference_image_id", None)]

BreedInfoRaises(breed) ==
    \/ ~IsDict(breed)
    \/ MetricRaises(breed, "weight")
    \/ MetricRaises(breed, "height")

\* variant: the message leaves the status code out
BreedsStatusErrorNoCode(response) ==
    [status |-> "error",
     message |-> <<"Failed to fetch breeds">>,
     details |-> response.text]

BreedsStatusError(response) ==
    [status |-> "error",
     message |-> <<"Failed to fetch breeds with status ", ToString(response.status_code)>>,
     details |-> response.text]

BreedsTimeoutError ==
    [status |-> "error",
     message |-> <<"Request timeout while fetching dog breeds">>,
     suggestion |-> "Please try again with a smaller limit or check your connection"]

BreedsGenericError(e, now) ==
    [status |-> "error", message |-> <<"Error fetching dog breeds: ", e.str>>,
     timestamp |-> now]

BreedsBody(o, page) ==
    IF o.kind = "raise" THEN o
    ELSE IF o.status_code = HTTP_OK
    THEN IF ~o.json.ok THEN Raise("JSONDecodeError", "Expecting value")
         ELSE LET breeds == o.json.value
              IN  IF \E i \in 1..Len(breeds) : BreedInfoRaises(breeds[i])
                  THEN Raise("AttributeError", "object has no attribute 'get'")
                  ELSE Return(json_dumps(
                         [status |-> "success", count |-> Len(breeds), page |-> page,
                          breeds |-> [i \in 1..Len(breeds) |-> BreedInfo(breeds[i])]]))
    ELSE Return(json_dumps(BreedsStatusError(o)))

\* variant: no `except httpx.TimeoutException` clause
BreedsExceptGenericOnly(r, now) ==
    IF r.kind # "raise" THEN r
    ELSE Return(json_dumps(BreedsGenericError(r.exc, now)))

BreedsExcept(r, now) ==
    IF r.kind # "raise" THEN r
    ELSE IF r.exc.type = "TimeoutException"
    THEN Return(json_dumps(BreedsTimeoutError))
    ELSE Return(json_dumps(BreedsGenericError(r.exc, now)))

(***************************************************************************)
(* search_dog_images                                                       *)
(***************************************************************************)
\* variant: the reset policy of get_random_dog_image
ClampSearchLimitReset(limit) ==
    IF limit < LIMIT_MIN \/ limit > IMAGE_LIMIT_MAX THEN IMAGE_LIMIT_DEFAULT ELSE limit

ClampSearchLimit(limit) == Min(Max(LIMIT_MIN, limit), IMAGE_LIMIT_MAX)

SearchImageParams(breed_id, limit, has_breeds) ==
    [breed_ids |-> breed_id, limit |-> ClampSearchLimit(limit),
     has_breeds |-> IF has_breeds THEN 1 ELSE 0]

SearchFailedError(breed_name) ==
    [status |-> "error",
     message |-> <<"Failed to search for breed '", breed_name, "'">>,
     suggestion |-> "Check the breed name spelling or try a different breed"]

SearchNoBreedsError(breed_name) ==
    [status |-> "error",
     message |-> <<"No breeds found matching '", breed_name, "'">>,
     suggestion |-> "Try searching for popular breeds like 'Golden Retriever', 'Labrador', 'Poodle'"]

SearchImagesStatusError(breed_name, response) ==
    [status |-> "error",
     message |-> <<"Failed to fetch images for ", breed_name>>,
     details |-> response.text]

SearchGenericError(breed_name, e, now) ==
    [status |-> "error",
     message |-> <<"Error searching for ", breed_name, " images: ", e.str>>,
     timestamp |-> now]

\* variant: takes the id of the last match
SearchBreedStepLastMatch(o, breed_name) ==
    IF o.kind = "raise" THEN o
    ELSE IF o.status_code # HTTP_OK
    THEN Return(json_dumps(SearchFailedError(breed_name)))
    ELSE IF ~o.json.ok THEN Raise("JSONDecodeError", "Expecting value")
    ELSE LET breeds == o.json.value
         IN  IF Len(breeds) = 0
             THEN Return(json_dumps(SearchNoBreedsError(breed_name)))
             ELSE IF "id" \notin DOMAIN breeds[Len(breeds)] THEN Raise("KeyError", "'id'")
             ELSE [kind |-> "continue", breed_id |-> breeds[Len(breeds)].id, breeds |-> breeds]

\* lines 234-249: what the breed search decides; "continue" carries breed_id
SearchBreedStep(o, breed_name) ==
    IF o.kind = "raise" THEN o
    ELSE IF o.status_code # HTTP_OK
    THEN Return(json_dumps(SearchFailedError(breed_name)))
    ELSE IF ~o.json.ok THEN Raise("JSONDecodeError", "Expecting value")
    ELSE LET breeds == o.json.value
         IN  IF Len(breeds) = 0
             THEN Return(json_dumps(SearchNoBreedsError(breed_name)))
             ELSE IF "id" \notin DOMAIN breeds[1] THEN Raise("KeyError", "'id'")
             ELSE [kind |-> "continue", breed_id |-> breeds[1].id, breeds |-> breeds]

SearchImageDetails(img) ==
    LET breed == img.breeds[1]
    IN  [name |-> DictGet(breed, "name", None),
         temperament |-> DictGet(breed, "temperament", None),
         bred_for |-> DictGet(breed, "bred_for", None),
         life_span |-> DictGet(breed, "life_span", None)]

SearchImageInfo(img) ==
    LET image_info == [id |-> DictGet(img, "id", None),
                       url |-> DictGet(img, "url", None),
                       width |-> DictGet(img, "width", None),
                       height |-> DictGet(img, "height", None)]
    IN  IF HasBreeds(img)
        THEN [breed_details |-> SearchImageDetails(img)] @@ image_info
        ELSE image_info

SearchImageRaises(img) ==
    \/ ~IsDict(img)
    \/ HasBreeds(img) /\ ~IsDict(img.breeds[1])

\* lines 264-300
SearchImagesBody(o, breed_name, breeds) ==
    IF o.kind = "raise" THEN o
    ELSE IF o.status_code = HTTP_OK
    THEN IF ~o.json.ok THEN Raise("JSONDecodeError", "Expecting value")
         ELSE IF "name" \notin DOMAIN breeds[1] THEN Raise("KeyError", "'name'")
         ELSE LET images == o.json.value
              IN  IF \E i \in 1..Len(images) : SearchImageRaises(images[i])
                  THEN Raise("AttributeError", "object has no attribute 'get'")
                  ELSE Return(json_dumps(
                         [status |-> "success", breed_searched |-> breed_name,
                          breed_found |-> breeds[1].name, count |-> Len(images),
                          images |-> [i \in 1..Len(images) |-> SearchImageInfo(images[i])]]))
    ELSE Return(json_dumps(SearchImagesStatusError(breed_name, o)))

\* the single `except Exception`
SearchExcept(r, breed_name, now) ==
    IF r.kind # "raise" THEN r
    ELSE Return(json_dumps(SearchGenericError(breed_name, r.exc, now)))

(***************************************************************************)
(* check_dog_api_status                                                    *)
(***************************************************************************)
Troubleshooting ==
    [api_key_setup |-> "Set DOG_API_KEY environment variable",
     get_api_key |-> "Visit https://thedogapi.com to get a free API key",
     common_issues |-> <<"Check internet connection", "Verify API key is correct",
                         "Ensure rate limits are not exceeded">>]

StatusResult(key, now) ==
    [timestamp |-> now, api_status |-> "unknown", api_key_configured |-> Truthy(key),
     base_url |-> DOG_API_BASE_URL, connectivity |-> <<"unknown">>,
     configuration |-> [timeout |-> "10 seconds", max_images_per_request |-> IMAGE_LIMIT_MAX,
                        supported_formats |-> <<"json", "src">>]]

StatusOperational(result) ==
    [result EXCEPT !.api_status = "operational", !.connectivity = <<"successful">>]

StatusNotConfigured(result) ==
    [api_key_status |-> "not_configured",
     note |-> "API key not set. Some features may be limited."] @@ StatusOperational(result)

StatusKeyChecked(result, auth_response) ==
    [api_key_status |-> IF auth_response.status_code = HTTP_OK THEN "valid" ELSE "invalid"]
    @@ result

StatusFailed(result, response) ==
    [error_details |-> response.text]
    @@ [result EXCEPT !.api_status = "error",
                      !.connectivity = <<"failed_with_status_", ToString(response.status_code)>>]

StatusDocument(result) == json_dumps([troubleshooting |-> Troubleshooting] @@ result)

StatusTimeoutError(now) ==
    [status |-> "error", message |-> <<"Connection timeout to The Dog API">>,
     troubleshooting |-> [suggestions |-> <<"Check your internet connection",
                                            "Try again in a few moments",
                                            "Verify The Dog API is operational">>],
     timestamp |-> now]

StatusGenericError(e, now) ==
    [status |-> "error", message |-> <<"Failed to check API status: ", e.str>>,
     timestamp |-> now]

\* variant: tests `API_KEY is not None` instead of its truth value
StatusProbeStepKeyNotNone(o, key, now) ==
    IF o.kind = "raise" THEN o
    ELSE LET result == StatusResult(key, now)
         IN  IF o.status_code = HTTP_OK
             THEN IF Len(key) = 1
                  THEN [kind |-> "continue", result |-> StatusOperational(result)]
                  ELSE Return(StatusDocument(StatusNotConfigured(result)))
             ELSE Return(StatusDocument(StatusFailed(result, o)))

\* lines 319-352: what the probe decides; "continue" carries the partial result
StatusProbeStep(o, key, now) ==
    IF o.kind = "raise" THEN o
    ELSE LET result == StatusResult(key, now)
         IN  IF o.status_code = HTTP_OK
             THEN IF Truthy(key)
                  THEN [kind |-> "continue", result |-> StatusOperational(result)]
                  ELSE Return(StatusDocument(StatusNotConfigured(result)))
             ELSE Return(StatusDocument(StatusFailed(result, o)))

\* lines 340-365 once the authenticated call has completed
StatusAuthStep(o, result) ==
    IF o.kind = "raise" THEN o
    ELSE Return(StatusDocument(StatusKeyChecked(result, o)))

StatusExcept(r, now) ==
    IF r.kind # "raise" THEN r
    ELSE IF r.exc.type = "TimeoutException"
    THEN Return(json_dumps(StatusTimeoutError(now)))
    ELSE Return(json_dumps(StatusGenericError(r.exc, now)))

(***************************************************************************)
(* Process teardown.                                                       *)
(***************************************************************************)
\* asyncio.create_task needs a running loop; without one it raises and the
\* coroutine object it was given is never started
create_task(running) ==
    IF running THEN [kind |-> "scheduled"]
    ELSE Raise("RuntimeError", "no running event loop")

(***************************************************************************)
(* State machine.                                                          *)
(***************************************************************************)
Init ==
    /\ API_KEY \in ApiKeys
    /\ pc = "serving"
    /\ runEnd = "none"
    /\ loopRunning = TRUE
    /\ clientCreated = 1
    /\ clientClosed = 0
    /\ uncaught = <<>>
    /\ op = "none"
    /\ args = EmptyDict
    /\ ipc = "idle"
    /\ requests = <<>>
    /\ outcomes = <<>>
    /\ locals = EmptyDict
    /\ returned = <<>>
    /\ propagated = <<>>

\* a tool coroutine ends: its value is handed to the caller, or its
\* exception leaves the tool
Finish(r) ==
    /\ ipc' = "done"
    /\ returned' = IF r.kind = "return" THEN Append(returned, r.value) ELSE returned
    /\ propagated' = IF r.kind = "raise" THEN Append(propagated, r.exc) ELSE propagated

Invoke(name, a, req) ==
    /\ pc = "serving"
    /\ ipc = "idle"
    /\ op' = name
    /\ args' = a
    /\ requests' = <<req>>
    /\ outcomes' = <<>>
    /\ locals' = EmptyDict
    /\ returned' = <<>>
    /\ propagated' = <<>>
    /\ UNCHANGED <<API_KEY, procVars>>

get_random_dog_image_call ==
    \E breed_id \in OptStrInputs, category_ids \in {<<>>, <<"1,2">>},
       format \in FormatInputs, limit \in ImageLimitInputs :
        /\ Invoke("get_random_dog_image",
                  [breed_id |-> breed_id, category_ids |-> category_ids,
                   format |-> format, limit |-> limit],
                  Request("/images/search",
                          RandomImageParams(breed_id, category_ids, format, limit),
                          AuthHeaders(API_KEY)))
        /\ ipc' = "await_images"

get_random_dog_image_resume ==
    \E o \in ImageSearchOutcomes, now \in Timestamps :
        /\ pc = "serving"
        /\ op = "get_random_dog_image"
        /\ ipc = "await_images"
        /\ outcomes' = Append(outcomes, o)
        /\ Finish(RandomImageExcept(RandomImageBody(o), now))
        /\ UNCHANGED <<API_KEY, procVars, op, args, requests, locals>>

\* the caller takes the result; the next invocation may start
Complete ==
    /\ pc = "serving"
    /\ ipc = "done"
    /\ ipc' = "idle"
    /\ op' = "none"
    /\ args' = EmptyDict
    /\ requests' = <<>>
    /\ outcomes' = <<>>
    /\ locals' = EmptyDict
    /\ returned' = <<>>
    /\ propagated' = <<>>
    /\ UNCHANGED <<API_KEY, procVars>>

get_dog_breeds_call ==
    \E limit \in BreedsLimitInputs, page \in PageInputs, search \in {<<>>, <<"retriever">>} :
        /\ Invoke("get_dog_breeds",
                  [limit |-> limit, page |-> page, search |-> search],
                  Request("/breeds", BreedsParams(limit, page, search), AuthHeaders(API_KEY)))
        /\ ipc' = "await_breeds"

get_dog_breeds_resume ==
    \E o \in BreedListOutcomes, now \in Timestamps :
        /\ pc = "serving"
        /\ op = "get_dog_breeds"
        /\ ipc = "await_breeds"
        /\ outcomes' = Append(outcomes, o)
        /\ Finish(BreedsExcept(BreedsBody(o, ValidatePage(args.page)), now))
        /\ UNCHANGED <<API_KEY, procVars, op, args, requests, locals>>

search_dog_images_call ==
    \E breed_name \in BreedNameInputs, limit \in ImageLimitInputs, has_breeds \in BOOLEAN :
        /\ Invoke("search_dog_images",
                  [breed_name |-> breed_name, limit |-> limit, has_breeds |-> has_breeds],
                  Request("/breeds/search", [q |-> breed_name], AuthHeaders(API_KEY)))
        /\ ipc' = "await_breed_search"

search_dog_images_breed_found ==
    \E o \in BreedSearchOutcomes, now \in Timestamps :
        /\ pc = "serving"
        /\ op = "search_dog_images"
        /\ ipc = "await_breed_search"
        /\ outcomes' = Append(outcomes, o)
        /\ LET step == SearchBreedStep(o, args.breed_name)
           IN  IF step.kind = "continue"
               THEN /\ requests' = Append(requests,
                          Request("/images/search",
                                  SearchImageParams(step.breed_id, args.limit, args.has_breeds),
                                  AuthHeaders(API_KEY)))
                    /\ locals' = [breeds |-> step.breeds]
                    /\ ipc' = "await_images"
                    /\ UNCHANGED <<returned, propagated>>
               ELSE /\ Finish(SearchExcept(step, args.breed_name, now))
                    /\ UNCHANGED <<requests, locals>>
        /\ UNCHANGED <<API_KEY, procVars, op, args>>

search_dog_images_resume ==
    \E o \in BreedImagesOutcomes, now \in Timestamps :
        /\ pc = "serving"
        /\ op = "search_dog_images"
        /\ ipc = "await_images"
        /\ outcomes' = Append(outcomes, o)
        /\ Finish(SearchExcept(SearchImagesBody(o, args.breed_name, locals.breeds),
                               args.breed_name, now))
        /\ UNCHANGED <<API_KEY, procVars, op, args, requests, locals>>

check_dog_api_status_call ==
    /\ Invoke("check_dog_api_status", EmptyDict,
              Request("/images/search?limit=1", EmptyDict, EmptyDict))
    /\ ipc' = "await_probe"

check_dog_api_status_probed ==
    \E o \in ProbeOutcomes, now \in Timestamps :
        /\ pc = "serving"
        /\ op = "check_dog_api_status"
        /\ ipc = "await_probe"
        /\ outcomes' = Append(outcomes, o)
        /\ LET step == StatusProbeStep(o, API_KEY, now)
           IN  IF step.kind = "continue"
               THEN /\ requests' = Append(requests,
                          Request("/breeds", EmptyDict, ("x-api-key" :> API_KEY[1])))
                    /\ locals' = [result |-> step.result]
                    /\ ipc' = "await_auth"
                    /\ UNCHANGED <<returned, propagated>>
               ELSE /\ Finish(StatusExcept(step, now))
                    /\ UNCHANGED <<requests, locals>>
        /\ UNCHANGED <<API_KEY, procVars, op, args>>

check_dog_api_status_resume ==
    \E o \in ProbeOutcomes, now \in Timestamps :
        /\ pc = "serving"
        /\ op = "check_dog_api_status"
        /\ ipc = "await_auth"
        /\ outcomes' = Append(outcomes, o)
        /\ Finish(StatusExcept(StatusAuthStep(o, locals.result), now))
        /\ UNCHANGED <<API_KEY, procVars, op, args, requests, locals>>

\* mcp.run() ends: it returns, or raises KeyboardInterrupt or another
\* exception; each is handled and control reaches the finally clause.  The
\* event loop is gone, and with it whatever tool coroutine was in flight
\* (a coroutine that has returned hands its value over in the same loop step).
RunEnds ==
    \E how \in {"return", "KeyboardInterrupt", "Exception"} :
        /\ pc = "serving"
        /\ ipc # "done"
        /\ pc' = "finally"
        /\ runEnd' = how
        /\ loopRunning' = FALSE
        /\ ipc' = "cancelled"
        /\ op' = "none"
        /\ args' = EmptyDict
        /\ requests' = <<>>
        /\ outcomes' = <<>>
        /\ locals' = EmptyDict
        /\ returned' = <<>>
        /\ propagated' = <<>>
        /\ UNCHANGED <<API_KEY, clientCreated, clientClosed, uncaught>>

\* finally: asyncio.create_task(client.aclose())
Teardown ==
    /\ pc = "finally"
    /\ LET t == create_task(loopRunning)
       IN  /\ uncaught' = IF t.kind = "raise" THEN Append(uncaught, t.exc) ELSE uncaught
           \* aclose() would run only as a task of a loop that runs again
           /\ clientClosed' = clientClosed
    /\ pc' = "exited"
    /\ UNCHANGED <<API_KEY, runEnd, loopRunning, clientCreated,
                   op, args, ipc, requests, outcomes, locals, returned, propagated>>

Next ==
    \/ get_random_dog_image_call
    \/ get_random_dog_image_resume
    \/ get_dog_breeds_call
    \/ get_dog_breeds_resume
    \/ search_dog_images_call
    \/ search_dog_images_breed_found
    \/ search_dog_images_resume
    \/ check_dog_api_status_call
    \/ check_dog_api_status_probed
    \/ check_dog_api_status_resume
    \/ Complete
    \/ RunEnds
    \/ Teardown

Spec == Init /\ [][Next]_vars

(***************************************************************************)
(* Properties.                                                             *)
(***************************************************************************)
Awaiting == {"await_images", "await_breeds", "await_breed_search", "await_probe", "await_auth"}

Done == ipc = "done"

\* the document inside the text the tool returned
Doc == returned[1].json

LastOutcome == outcomes[Len(outcomes)]

IsResponse(o) == o.kind = "response"

Parts(message) == {message[i] : i \in 1..Len(message)}

\* a breed shaped as the breed list documents it: an object with
\* object-valued weight and height
IsBreedRecord(b) ==
    /\ IsDict(b)
    /\ \A k \in {"weight", "height"} : k \in DOMAIN b => IsDict(b[k])

\* an item shaped as the image search documents it: an object whose breed
\* entries are breed records
IsImageRecord(img) ==
    /\ IsDict(img)
    /\ "breeds" \in DOMAIN img =>
          \A j \in 1..Len(img.breeds) : IsBreedRecord(img.breeds[j])

\* C1: for every outcome of every upstream call (200, non-200, timeout, any
\* other exception, a body that cannot be decoded or mapped) each of the four
\* tools ends by returning exactly one text document, and no exception
\* leaves the tool: a delivered outcome either finishes the invocation or
\* issues the one further request the tool may make.
C1_OneDocumentNoException ==
    /\ propagated = <<>>
    /\ Len(returned) <= 1
    /\ Done => /\ Len(returned) = 1
               /\ returned[1].py_type = "str"
               /\ Len(outcomes) >= 1
               /\ Len(outcomes) = Len(requests)
    /\ ipc \in Awaiting => /\ returned = <<>>
                           /\ Len(requests) = Len(outcomes) + 1
                           /\ Len(requests) <= 2

C1_Witness ==
    /\ Done
    /\ op = "get_random_dog_image"
    /\ IsResponse(outcomes[1])
    /\ outcomes[1].status_code = 200
    /\ ~outcomes[1].json.ok
    /\ Len(returned) = 1

\* C2: every document returned by any of the four tools carries a status
\* field whose value is "success" or "error".
C2_StatusField ==
    Done => \A i \in 1..Len(returned) :
                /\ "status" \in DOMAIN returned[i].json
                /\ returned[i].json.status \in {"success", "error"}

\* C3: in search_dog_images a breed search answered with a non-200 status or
\* with zero matches ends in an error envelope without an image-search
\* request; the image-search request follows only a breed search with at
\* least one match and carries the id of the first match.
C3_BreedSearchGatesImageSearch ==
    op = "search_dog_images" =>
        /\ requests[1].url = <<DOG_API_BASE_URL, "/breeds/search">>
        /\ (/\ Len(outcomes) >= 1
            /\ IsResponse(outcomes[1])
            /\ \/ outcomes[1].status_code # 200
               \/ outcomes[1].json.ok /\ Len(outcomes[1].json.value) = 0)
           => /\ Done
              /\ Doc.status = "error"
              /\ Len(requests) = 1
        /\ Len(requests) >= 2 =>
              /\ Len(requests) = 2
              /\ IsResponse(outcomes[1])
              /\ outcomes[1].status_code = 200
              /\ outcomes[1].json.ok
              /\ Len(outcomes[1].json.value) >= 1
              /\ requests[2].url = <<DOG_API_BASE_URL, "/images/search">>
              /\ requests[2].params.breed_ids = outcomes[1].json.value[1].id

C3_Witness ==
    /\ op = "search_dog_images"
    /\ Len(requests) = 2
    /\ requests[2].url = <<DOG_API_BASE_URL, "/images/search">>
    /\ Len(outcomes[1].json.value) = 2
    /\ "id" \in DOMAIN outcomes[1].json.value[2]
    /\ outcomes[1].json.value[1].id # outcomes[1].json.value[2].id

\* C4: get_random_dog_image sends the input limit when it lies in [1,10] and
\* 1 otherwise; get_dog_breeds sends the input limit when it lies in [1,100]
\* and 10 otherwise, and the input page when it is >= 0 and 0 otherwise; the
\* request is issued whatever the input, a document is returned only after
\* an upstream outcome, and a well-formed 200 response yields a success
\* envelope whatever the input was.
C4_ResetPolicy ==
    /\ op = "get_random_dog_image" =>
          /\ Len(requests) = 1
          /\ requests[1].params.limit =
                IF 1 <= args.limit /\ args.limit <= 10 THEN args.limit ELSE 1
    /\ op = "get_dog_breeds" =>
          /\ Len(requests) = 1
          /\ requests[1].params.limit =
                IF 1 <= args.limit /\ args.limit <= 100 THEN args.limit ELSE 10
          /\ requests[1].params.page = IF args.page >= 0 THEN args.page ELSE 0
    /\ op \in {"get_random_dog_image", "get_dog_breeds"} /\ returned # <<>>
          => /\ Len(outcomes) = 1
             /\ (/\ IsResponse(outcomes[1])
                 /\ outcomes[1].status_code = 200
                 /\ outcomes[1].json.ok
                 /\ \A i \in 1..Len(outcomes[1].json.value) :
                       IF op = "get_dog_breeds"
                       THEN IsBreedRecord(outcomes[1].json.value[i])
                       ELSE IsImageRecord(outcomes[1].json.value[i]))
                => Doc.status = "success"

C4_Witness ==
    /\ op = "get_dog_breeds"
    /\ args.limit = 101
    /\ args.page = -1
    /\ requests[1].params.limit = 10
    /\ requests[1].params.page = 0
    /\ Done
    /\ Doc.status = "success"
    /\ Doc.page = 0

\* C5: whenever search_dog_images issues the image-search request, its
\* limit is max(1, min(input, 10)), hence within [1,10].
C5_SearchLimitClamped ==
    (op = "search_dog_images" /\ Len(requests) = 2) =>
        /\ requests[2].params.limit = Max(1, Min(args.limit, 10))
        /\ requests[2].params.limit \in 1..10

C5_Witness ==
    /\ op = "search_dog_images"
    /\ Len(requests) = 2
    /\ args.limit = 12
    /\ requests[2].params.limit = 10

StatusCodeAndBody(doc, response) ==
    /\ doc.status = "error"
    /\ ToString(response.status_code) \in Parts(doc.message)
    /\ "details" \in DOMAIN doc
    /\ doc.details = response.text

\* C7 as stated: in get_random_dog_image, get_dog_breeds and both upstream
\* calls of search_dog_images a non-200 response yields an error envelope
\* whose message includes the status code and whose details is the raw body.
C7_Original ==
    (/\ Done
     /\ op \in {"get_random_dog_image", "get_dog_breeds", "search_dog_images"}
     /\ IsResponse(LastOutcome)
     /\ LastOutcome.status_code # 200)
    => StatusCodeAndBody(Doc, LastOutcome)

\* C7 amended: a non-200 response yields an error envelope; in
\* get_random_dog_image and get_dog_breeds its message includes the status
\* code and its details is the raw body; in search_dog_images the message is
\* formed from the breed name alone, the breed-search error carries a
\* suggestion and no details, the image-search error carries the raw body as
\* details.
C7_NonOkEnvelope ==
    (/\ Done
     /\ op \in {"get_random_dog_image", "get_dog_breeds", "search_dog_images"}
     /\ IsResponse(LastOutcome)
     /\ LastOutcome.status_code # 200)
    => /\ Doc.status = "error"
       /\ op \in {"get_random_dog_image", "get_dog_breeds"}
             => StatusCodeAndBody(Doc, LastOutcome)
       /\ (op = "search_dog_images" /\ Len(outcomes) = 1)
             => /\ Doc.message = <<"Failed to search for breed '", args.breed_name, "'">>
                /\ "details" \notin DOMAIN Doc
                /\ "suggestion" \in DOMAIN Doc
       /\ (op = "search_dog_images" /\ Len(outcomes) = 2)
             => /\ Doc.message = <<"Failed to fetch images for ", args.breed_name>>
                /\ "details" \in DOMAIN Doc
                /\ Doc.details = LastOutcome.text

C7_Witness ==
    /\ Done
    /\ op = "get_dog_breeds"
    /\ IsResponse(LastOutcome)
    /\ LastOutcome.status_code = 500
    /\ Doc.details = LastOutcome.text

\* the messages the same tool gives for a non-200 status and for an
\* exception other than a timeout
OtherMessages(name) ==
    LET excs == {ConnectError.exc, TimeoutException.exc,
                 Raise("JSONDecodeError", "Expecting value").exc}
    IN  CASE name = "get_random_dog_image" ->
               {RandomImageStatusError(r).message : r \in ErrorResponses}
               \cup {RandomImageGenericError(e, "").message : e \in excs}
          [] name = "get_dog_breeds" ->
               {BreedsStatusError(r).message : r \in ErrorResponses}
               \cup {BreedsGenericError(e, "").message : e \in excs}
          [] name = "check_dog_api_status" ->
               {StatusGenericError(e, "").message : e \in excs}

\* C8: when a call of get_random_dog_image, get_dog_breeds or
\* check_dog_api_status times out, no further request is issued and the
\* tool returns an error envelope of the timeout kind: its message is none
\* of the tool's non-200 or generic-exception messages and it has no details.
C8_TimeoutEnvelope ==
    /\ (/\ op \in {"get_random_dog_image", "get_dog_breeds", "check_dog_api_status"}
        /\ Len(outcomes) >= 1
        /\ IsTimeout(LastOutcome))
       => /\ Done
          /\ Len(requests) = Len(outcomes)
          /\ Doc.status = "error"
          /\ Doc.message \notin OtherMessages(op)
          /\ "details" \notin DOMAIN Doc
          /\ "error_details" \notin DOMAIN Doc

C8_Witness ==
    /\ Done
    /\ op = "check_dog_api_status"
    /\ Len(outcomes) = 2
    /\ IsTimeout(outcomes[2])
    /\ Doc.status = "error"

\* C9 as stated: with no API key, whenever the probe completes with any HTTP
\* status the document reports api_key_status "not_configured" and at most
\* one request was made.
C9_Original ==
    (/\ Done
     /\ op = "check_dog_api_status"
     /\ ~Truthy(API_KEY)
     /\ IsResponse(LastOutcome))
    => /\ "api_key_status" \in DOMAIN Doc
       /\ Doc.api_key_status = "not_configured"
       /\ Len(requests) <= 1

\* C9 amended: with no API key, check_dog_api_status never issues the
\* key-validation request; its status document reports api_key_status
\* "not_configured" when the probe returned 200, and has no api_key_status
\* field (only api_key_configured = false) when the probe returned another
\* status.
C9_NotConfigured ==
    (op = "check_dog_api_status" /\ ~Truthy(API_KEY)) =>
        /\ Len(requests) = 1
        /\ requests[1].url = <<DOG_API_BASE_URL, "/images/search?limit=1">>
        /\ (Done /\ IsResponse(LastOutcome)) =>
              /\ Doc.api_key_configured = FALSE
              /\ LastOutcome.status_code = 200 =>
                    /\ "api_key_status" \in DOMAIN Doc
                    /\ Doc.api_key_status = "not_configured"
              /\ LastOutcome.status_code # 200 => "api_key_status" \notin DOMAIN Doc

C9_Witness ==
    /\ Done
    /\ op = "check_dog_api_status"
    /\ API_KEY = <<"">>
    /\ IsResponse(LastOutcome)
    /\ LastOutcome.status_code = 200
    /\ Doc.api_key_status = "not_configured"

\* C10: the shared client is created once, and when the process has left
\* the server loop (by return, KeyboardInterrupt or another exception) and
\* finished its teardown, the client has been closed exactly once.
C10_ClientClosedOnce ==
    /\ clientCreated = 1
    /\ pc = "exited" => clientClosed = 1

====
